---- MODULE Spec2Model ----
(***************************************************************************)
(* Model of src/toJson.py: the two-pattern line scanner `convert`, its     *)
(* gap-filling pass and the key normaliser `normalize_key`.                *)
(*                                                                         *)
(* Text is modelled as sequences of one-character strings.  A Python dict  *)
(* (insertion ordered) is a sequence of [key, items] records with distinct *)
(* keys.  Optional values (None / a match object) are <<>> or <<v>>.       *)
(*                                                                         *)
(* Three specifications share the variables:                               *)
(*   Spec      convert() over every sequence of at most MaxLines lines     *)
(*             drawn from Pool, for both values of include_empty_states    *)
(*   SpecKey   normalize_key() over every raw key of at most MaxKeyLen     *)
(*             characters of KeyAlphabet, and re-normalisation             *)
(*   SpecItem  ITEM_RE.match() over every line of at most MaxLineLen       *)
(*             characters of LineAlphabet                                  *)
(***************************************************************************)
EXTENDS Integers, Sequences, FiniteSets

VARIABLES
    lines,                 \* convert: the input lines (line 15)
    include_empty_states,  \* convert: the gap-filling flag (line 14)
    data,                  \* convert: the table (line 17)
    current_state,         \* convert: None or the last header's index (line 18)
    max_state_seen,        \* convert: running maximum, -1 at start (line 19)
    i,                     \* convert: 1-based position of the for loop (line 21)
    s,                     \* convert: gap-filling loop variable (line 39)
    pc,                    \* control point of the running specification
    key_inner,             \* SpecKey: the raw key given to normalize_key
    key,                   \* SpecKey: normalize_key(key_inner)
    rekey,                 \* SpecKey: result of normalising `key` again
    line,                  \* SpecItem: the line given to ITEM_RE
    m_item                 \* SpecItem: the match ITEM_RE returns

scanVars == <<lines, include_empty_states, data, current_state, max_state_seen, i, s>>
keyVars  == <<key_inner, key, rekey>>
itemVars == <<line, m_item>>
vars     == <<scanVars, keyVars, itemVars, pc>>

(* ------------------------------ bounds -------------------------------- *)

MaxLines == 4

MaxKeyLen == 6

MaxLineLen == 7

(* --------------------------- text helpers ----------------------------- *)

None == <<>>

Some(v) == <<v>>

Max(a, b) == IF a >= b THEN a ELSE b

IsSpace(c) == c \in {" ", "\t"}

IsDigit(c) == c \in {"0", "1", "2", "3", "4", "5", "6", "7", "8", "9"}

AllSpace(t) == \A j \in 1..Len(t) : IsSpace(t[j])

AllDigits(t) == \A j \in 1..Len(t) : IsDigit(t[j])

DigitVal(c) ==
    CASE c = "0" -> 0 [] c = "1" -> 1 [] c = "2" -> 2 [] c = "3" -> 3
      [] c = "4" -> 4 [] c = "5" -> 5 [] c = "6" -> 6 [] c = "7" -> 7
      [] c = "8" -> 8 [] c = "9" -> 9

DigitChar(d) ==
    CASE d = 0 -> "0" [] d = 1 -> "1" [] d = 2 -> "2" [] d = 3 -> "3"
      [] d = 4 -> "4" [] d = 5 -> "5" [] d = 6 -> "6" [] d = 7 -> "7"
      [] d = 8 -> "8" [] d = 9 -> "9"

\* int(digits): decimal value; leading zeros are accepted and vanish.
RECURSIVE IntOf(_)
IntOf(ds) ==
    IF ds = <<>> THEN 0
    ELSE 10 * IntOf(SubSeq(ds, 1, Len(ds) - 1)) + DigitVal(ds[Len(ds)])

\* str(n) for n >= 0: decimal digits without leading zeros.
RECURSIVE StrNat(_)
StrNat(n) ==
    IF n < 10 THEN <<DigitChar(n)>>
    ELSE StrNat(n \div 10) \o <<DigitChar(n % 10)>>

\* str(current_state): str(None) is the text None.
Str(cs) == IF cs = None THEN <<"N", "o", "n", "e">> ELSE StrNat(cs[1])

(* --------------------------- the patterns ----------------------------- *)

StateWord == <<"S", "t", "a", "t", "e">>

\* STATE_RE = ^\s*State\s+(\d+)\s*$ : every way the pattern matches the whole
\* line, as <<p, q>>, the first and last position of group 1.
StateSplits(t) ==
    LET n == Len(t)
        \* a: the length of the leading \s*, followed by the word State
        A == { a \in 0..n : /\ AllSpace(SubSeq(t, 1, a))
                            /\ a + 5 <= n
                            /\ SubSeq(t, a + 1, a + 5) = StateWord }
        \* p: the first digit, after \s+
        P(a) == { p \in (a + 7)..n : AllSpace(SubSeq(t, a + 6, p - 1)) }
        \* q: the last digit, before \s*$
        Q(p) == { q \in p..n : /\ AllDigits(SubSeq(t, p, q))
                               /\ AllSpace(SubSeq(t, q + 1, n)) }
    IN UNION { UNION { { <<p, q>> : q \in Q(p) } : p \in P(a) } : a \in A }

\* STATE_RE.match(line): None, or the text of group 1 (\d+ is greedy: the
\* earliest start, then the longest run).
StateMatch(t) ==
    LET S == StateSplits(t) IN
    IF S = {} THEN None
    ELSE LET p == CHOOSE p \in {x[1] : x \in S} : \A y \in S : p <= y[1]
             q == CHOOSE q \in {x[2] : x \in S} : \A y \in S : y[1] = p => q >= y[2]
         IN Some(SubSeq(t, p, q))

\* \s*:\s*(\d+)\s* with the $ anchor left out: anything may follow the value.
ValueTailUnanchored(t) ==
    LET n == Len(t)
        C == { c \in 1..n : AllSpace(SubSeq(t, 1, c - 1)) /\ t[c] = ":" }
        P(c) == { p \in (c + 1)..n : AllSpace(SubSeq(t, c + 1, p - 1)) }
        Q(p) == { q \in p..n : AllDigits(SubSeq(t, p, q)) }
    IN UNION { UNION { { <<p, q>> : q \in Q(p) } : p \in P(c) } : c \in C }

\* The part of ITEM_RE after the closing bracket, \s*:\s*(\d+)\s*$ : every
\* way it matches the whole of `t`, as <<p, q>>, the span of group 2 in t.
ValueTail(t) ==
    LET n == Len(t)
        \* c: the colon, after \s*
        C == { c \in 1..n : AllSpace(SubSeq(t, 1, c - 1)) /\ t[c] = ":" }
        \* p: the first digit, after \s*
        P(c) == { p \in (c + 1)..n : AllSpace(SubSeq(t, c + 1, p - 1)) }
        \* q: the last digit, before \s*$
        Q(p) == { q \in p..n : /\ AllDigits(SubSeq(t, p, q))
                               /\ AllSpace(SubSeq(t, q + 1, n)) }
    IN UNION { UNION { { <<p, q>> : q \in Q(p) } : p \in P(c) } : c \in C }

\* ITEM_RE = ^\s*\[(.*)\]\s*:\s*(\d+)\s*$ : every way the pattern matches
\* the line, as [open, close, inner, value]: the positions of the two
\* brackets and the texts of groups 1 and 2.
ItemSplits(t) ==
    LET n == Len(t) IN
    UNION { UNION { { [open |-> o, close |-> e,
                       inner |-> SubSeq(t, o + 1, e - 1),
                       value |-> SubSeq(t, e + pq[1], e + pq[2])]
                      : pq \in ValueTail(SubSeq(t, e + 1, n)) }
                    : e \in { e \in (o + 1)..n : t[e] = "]" } }
            : o \in { o \in 1..n : t[o] = "[" /\ AllSpace(SubSeq(t, 1, o - 1)) } }

\* Among several splits the regex engine returns the one its quantifiers
\* prefer: leftmost brackets first, then by the length of (.*), then the
\* longest (\d+).
PreferLongest(S) ==
    CHOOSE m \in S : \A x \in S :
        \/ Len(m.inner) > Len(x.inner)
        \/ Len(m.inner) = Len(x.inner) /\ Len(m.value) >= Len(x.value)

PreferShortest(S) ==
    CHOOSE m \in S : \A x \in S :
        \/ Len(m.inner) < Len(x.inner)
        \/ Len(m.inner) = Len(x.inner) /\ Len(m.value) >= Len(x.value)

\* ITEM_RE.match(line) with the greedy (.*) of the source.
ItemMatch(t) ==
    LET S == ItemSplits(t) IN
    IF S = {} THEN None ELSE Some(PreferLongest(S))

\* The same pattern with a non-greedy (.*?) in place of (.*).
ItemMatchLazy(t) ==
    LET S == ItemSplits(t) IN
    IF S = {} THEN None ELSE Some(PreferShortest(S))

(* --------------------------- normalize_key ---------------------------- *)

\* inner.split(","): the parts between the commas, empty parts included.
RECURSIVE Split(_)
Split(t) ==
    IF \A j \in 1..Len(t) : t[j] # "," THEN <<t>>
    ELSE LET c == CHOOSE c \in 1..Len(t) :
                      t[c] = "," /\ \A j \in 1..(c - 1) : t[j] # ","
         IN <<SubSeq(t, 1, c - 1)>> \o Split(SubSeq(t, c + 1, Len(t)))

RECURSIVE LStrip(_)
LStrip(p) ==
    IF p # <<>> /\ IsSpace(p[1]) THEN LStrip(Tail(p)) ELSE p

RECURSIVE RStrip(_)
RStrip(p) ==
    IF p # <<>> /\ IsSpace(p[Len(p)]) THEN RStrip(SubSeq(p, 1, Len(p) - 1)) ELSE p

\* p.lstrip(): only the leading whitespace goes.
StripLeftOnly(p) == LStrip(p)

\* p.strip()
Strip(p) == RStrip(LStrip(p))

\* p not in ("T", "NT") and p != ""
KeepPart(p) == p \notin {<<"T">>, <<"N", "T">>} /\ p # <<>>

\* ", ".join(parts)
RECURSIVE Join(_)
Join(parts) ==
    IF parts = <<>> THEN <<>>
    ELSE IF Len(parts) = 1 THEN parts[1]
    ELSE parts[1] \o <<",", " ">> \o Join(Tail(parts))

\* The two list comprehensions in the other order: the tags are filtered
\* before the parts are stripped.
normalize_key_filter_first(inner) ==
    LET raw   == SelectSeq(Split(inner), KeepPart)
        parts == [j \in 1..Len(raw) |-> Strip(raw[j])]
    IN <<"[">> \o Join(parts) \o <<"]">>

normalize_key(inner) ==
    LET raw   == Split(inner)
        parts == [j \in 1..Len(raw) |-> Strip(raw[j])]
    IN <<"[">> \o Join(SelectSeq(parts, KeepPart)) \o <<"]">>

(* ------------------------------ the table ----------------------------- *)

Keys(d) == [j \in 1..Len(d) |-> d[j].key]

HasKey(d, k) == \E j \in 1..Len(d) : d[j].key = k

\* d[k], for a key that is present
Items(d, k) == d[CHOOSE j \in 1..Len(d) : d[j].key = k].items

\* d[k] = [] : an existing entry is replaced by an empty list.
SetEmpty(d, k) ==
    IF HasKey(d, k)
    THEN [j \in 1..Len(d) |-> IF d[j].key = k THEN [key |-> k, items |-> <<>>] ELSE d[j]]
    ELSE Append(d, [key |-> k, items |-> <<>>])

\* d.setdefault(k, []) : a new key goes to the end, an old one stays as it is.
SetDefault(d, k) ==
    IF HasKey(d, k) THEN d ELSE Append(d, [key |-> k, items |-> <<>>])

\* d[k].insert(0, item)
PrependItem(d, k, item) ==
    [j \in 1..Len(d) |->
        IF d[j].key = k THEN [d[j] EXCEPT !.items = <<item>> \o @] ELSE d[j]]

\* d[k].append(item), for a key that is present
AppendItem(d, k, item) ==
    [j \in 1..Len(d) |->
        IF d[j].key = k THEN [d[j] EXCEPT !.items = Append(@, item)] ELSE d[j]]

\* The record convert builds from a match of ITEM_RE.
ItemOf(m) == [key |-> normalize_key(m.inner), value |-> IntOf(m.value)]

(* ------------------------------- inputs ------------------------------- *)

LState0 == <<"S", "t", "a", "t", "e", " ", "0">>

LState2 == <<"S", "t", "a", "t", "e", " ", "2">>

LState01 == <<" ", "S", "t", "a", "t", "e", " ", "0", "1">>

LItemA == <<"[", "T", ",", " ", "a", "]", ":", " ", "5">>

LItemB == <<"[", "N", "T", ",", "b", "]", ":", "7">>

LNoValue == <<"[", "a", "]", ":">>

Pool == {LState0, LState2, LState01, LItemA, LItemB, LNoValue}

Inputs == UNION { [1..n -> Pool] : n \in 0..MaxLines }

(* ------------------------------ convert ------------------------------- *)

KeyIdle == key_inner = <<>> /\ key = <<>> /\ rekey = <<>>

ItemIdle == line = <<>> /\ m_item = None

ScanIdle ==
    /\ lines = <<>> /\ include_empty_states = FALSE /\ data = <<>>
    /\ current_state = None /\ max_state_seen = -1 /\ i = 1 /\ s = 0

Init ==
    /\ lines \in Inputs
    /\ include_empty_states \in BOOLEAN
    /\ data = <<>>
    /\ current_state = None
    /\ max_state_seen = -1
    /\ i = 1
    /\ s = 0
    /\ pc = "scan"
    /\ KeyIdle /\ ItemIdle

\* Line 30: the item branch is taken.
ItemTakenAnyState(m, cs) == m # None

ItemTaken(m, cs) == m # None /\ cs # None

\* Lines 22-27 without line 26: the header makes no entry.
StateLineNoEntry ==
    /\ pc = "scan" /\ i <= Len(lines)
    /\ StateMatch(lines[i]) # None
    /\ LET n == IntOf(StateMatch(lines[i])[1]) IN
        /\ current_state' = Some(n)
        /\ max_state_seen' = Max(max_state_seen, n)
        /\ data' = data
    /\ i' = i + 1
    /\ UNCHANGED <<lines, include_empty_states, s, pc, keyVars, itemVars>>

\* Lines 22-27: a State header.
StateLine ==
    /\ pc = "scan" /\ i <= Len(lines)
    /\ StateMatch(lines[i]) # None
    /\ LET n == IntOf(StateMatch(lines[i])[1]) IN
        /\ current_state' = Some(n)
        /\ max_state_seen' = Max(max_state_seen, n)
        /\ data' = SetDefault(data, Str(Some(n)))
    /\ i' = i + 1
    /\ UNCHANGED <<lines, include_empty_states, s, pc, keyVars, itemVars>>

\* Lines 29-36: an item line under a current state.  data[str(current_state)]
\* raises KeyError when the key is absent.
ItemLine ==
    /\ pc = "scan" /\ i <= Len(lines)
    /\ StateMatch(lines[i]) = None
    /\ ItemTaken(ItemMatch(lines[i]), current_state)
    /\ IF HasKey(data, Str(current_state))
       THEN /\ data' = AppendItem(data, Str(current_state), ItemOf(ItemMatch(lines[i])[1]))
            /\ i' = i + 1
            /\ pc' = pc
       ELSE /\ pc' = "error"
            /\ UNCHANGED <<data, i>>
    /\ UNCHANGED <<lines, include_empty_states, current_state, max_state_seen, s,
                   keyVars, itemVars>>

\* Lines 29-30 failing: a line that matches neither pattern, or an item line
\* while current_state is None.  The loop goes on to the next line.
SkipLine ==
    /\ pc = "scan" /\ i <= Len(lines)
    /\ StateMatch(lines[i]) = None
    /\ ~ItemTaken(ItemMatch(lines[i]), current_state)
    /\ i' = i + 1
    /\ UNCHANGED <<lines, include_empty_states, data, current_state, max_state_seen,
                   s, pc, keyVars, itemVars>>

\* Line 38 read as `if True`: the flag is ignored.
EndScanAlwaysFill ==
    /\ pc = "scan" /\ i > Len(lines)
    /\ pc' = "fill"
    /\ s' = 0
    /\ UNCHANGED <<lines, include_empty_states, data, current_state, max_state_seen,
                   i, keyVars, itemVars>>

\* Lines 21 and 38: the loop is exhausted; the flag decides on gap-filling.
EndScan ==
    /\ pc = "scan" /\ i > Len(lines)
    /\ IF include_empty_states THEN pc' = "fill" ELSE pc' = "done"
    /\ s' = 0
    /\ UNCHANGED <<lines, include_empty_states, data, current_state, max_state_seen,
                   i, keyVars, itemVars>>

\* range(1, max_state_seen + 1)
FillRangeFromOne == 1..max_state_seen

\* Line 39: range(max_state_seen + 1)
FillRange == 0..max_state_seen

\* Lines 39-40: one iteration of the gap-filling loop.
FillState ==
    /\ pc = "fill" /\ s \in FillRange
    /\ data' = SetDefault(data, Str(Some(s)))
    /\ s' = s + 1
    /\ UNCHANGED <<lines, include_empty_states, current_state, max_state_seen, i, pc,
                   keyVars, itemVars>>

\* Lines 39 and 42: the range is exhausted; data is returned.
EndFill ==
    /\ pc = "fill" /\ s \notin FillRange
    /\ pc' = "done"
    /\ UNCHANGED <<scanVars, keyVars, itemVars>>

Next == StateLine \/ ItemLine \/ SkipLine \/ EndScan \/ FillState \/ EndFill

Spec == Init /\ [][Next]_vars

(* ------------------- normalize_key on its own: SpecKey ---------------- *)

KeyAlphabet == {"T", "N", "t", ",", " "}

RawKeys == UNION { [1..n -> KeyAlphabet] : n \in 0..MaxKeyLen }

InitKey ==
    /\ key_inner \in RawKeys
    /\ key = <<>>
    /\ rekey = <<>>
    /\ pc = "key"
    /\ ScanIdle /\ ItemIdle

\* Line 34: key = normalize_key(key_inner)
NormalizeKey ==
    /\ pc = "key"
    /\ key' = normalize_key(key_inner)
    /\ pc' = "normalized"
    /\ UNCHANGED <<key_inner, rekey, scanVars, itemVars>>

\* normalize_key applied to its own result, brackets and all.
RenormalizeWhole ==
    /\ pc = "normalized"
    /\ rekey' = normalize_key(key)
    /\ pc' = "renormalized"
    /\ UNCHANGED <<key_inner, key, scanVars, itemVars>>

\* Lines 29-34 on an item line whose bracketed part is `key`: ITEM_RE takes
\* the text between the brackets and normalize_key is applied to that.
RescanKey ==
    /\ pc = "normalized"
    /\ LET m == ItemMatch(key \o <<":", " ", "0">>) IN
        /\ m # None
        /\ rekey' = normalize_key(m[1].inner)
    /\ pc' = "rescanned"
    /\ UNCHANGED <<key_inner, key, scanVars, itemVars>>

NextKey == NormalizeKey \/ RenormalizeWhole \/ RescanKey

SpecKey == InitKey /\ [][NextKey]_vars

(* ---------------------- ITEM_RE on its own: SpecItem ------------------ *)

LineAlphabet == {"[", "]", ":", "1", " "}

ItemLines == UNION { [1..n -> LineAlphabet] : n \in 0..MaxLineLen }

InitItem ==
    /\ line \in ItemLines
    /\ m_item = None
    /\ pc = "line"
    /\ ScanIdle /\ KeyIdle

\* Line 29: m_item = ITEM_RE.match(line)
MatchItem ==
    /\ pc = "line"
    /\ m_item' = ItemMatch(line)
    /\ pc' = "matched"
    /\ UNCHANGED <<line, scanVars, keyVars>>

NextItem == MatchItem

SpecItem == InitItem /\ [][NextItem]_vars

(* ======================== properties of convert ======================= *)

\* How many lines the loop has consumed.
Consumed == IF pc \in {"scan", "error"} THEN i - 1 ELSE Len(lines)

IsHeader(j) == StateMatch(lines[j]) # None

HeaderIndex(j) == IntOf(StateMatch(lines[j])[1])

IsItem(j) == ~IsHeader(j) /\ ItemMatch(lines[j]) # None

\* The last header before line j, 0 when there is none.
Governor(j) ==
    LET H == { h \in 1..(j - 1) : IsHeader(h) } IN
    IF H = {} THEN 0 ELSE CHOOSE h \in H : \A g \in H : g <= h

HeaderStates(n) == { HeaderIndex(j) : j \in { h \in 1..n : IsHeader(h) } }

MaxHeader(n) ==
    IF HeaderStates(n) = {} THEN -1
    ELSE CHOOSE m \in HeaderStates(n) : \A k \in HeaderStates(n) : k <= m

RECURSIVE Ascending(_)
Ascending(S) ==
    IF S = {} THEN <<>>
    ELSE LET m == CHOOSE m \in S : \A x \in S : m <= x
         IN <<m>> \o Ascending(S \ {m})

\* The item lines among the first n that stand in a block of state k.
BlockLines(n, k) ==
    { j \in 1..n : IsItem(j) /\ Governor(j) # 0 /\ HeaderIndex(Governor(j)) = k }

ExpectedItems(n, k) ==
    LET js == Ascending(BlockLines(n, k)) IN
    [x \in 1..Len(js) |-> ItemOf(ItemMatch(lines[js[x]])[1])]

DistinctKeys == \A a, b \in 1..Len(data) : data[a].key = data[b].key => a = b

IsPrefix(u, v) == Len(u) <= Len(v) /\ SubSeq(v, 1, Len(u)) = u

\* C1: at every point of the scan and in the returned table, the item
\* sequence of each state whose header has been read is exactly the item
\* lines of that state's blocks, in input order; entries of other keys hold
\* no items and no key occurs twice, so no item line is recorded under
\* another state or more than once.
C1_ItemsUnderTheirState ==
    LET n == Consumed IN
    /\ DistinctKeys
    /\ \A k \in HeaderStates(n) :
          /\ HasKey(data, StrNat(k))
          /\ Items(data, StrNat(k)) = ExpectedItems(n, k)
    /\ \A j \in 1..Len(data) :
          data[j].key \notin { StrNat(k) : k \in HeaderStates(n) } => data[j].items = <<>>

\* A returned table with two states, one holding two different items.
C1_Witness ==
    /\ pc = "done"
    /\ Len(data) >= 2
    /\ \E j \in 1..Len(data) :
          Len(data[j].items) = 2 /\ data[j].items[1] # data[j].items[2]

\* C2: with gap-filling on, the returned table's key set is exactly
\* {0..maxState} (empty when no header appeared), and a state of that range
\* that never appeared as a header has an empty item sequence.
C2_GapFilledKeySet ==
    (pc = "done" /\ include_empty_states) =>
        LET n == Len(lines) IN
        /\ DistinctKeys
        /\ { data[j].key : j \in 1..Len(data) } = { StrNat(k) : k \in 0..MaxHeader(n) }
        /\ \A k \in (0..MaxHeader(n)) \ HeaderStates(n) : Items(data, StrNat(k)) = <<>>

\* A gap-filled table in which a state below the maximum had no header.
C2_Witness ==
    /\ pc = "done" /\ include_empty_states
    /\ \E k \in 0..MaxHeader(Len(lines)) :
          k \notin HeaderStates(Len(lines)) /\ HasKey(data, StrNat(k))
    /\ \E j \in 1..Len(data) : data[j].items # <<>>

\* C3: with gap-filling on, the members of the returned table are in
\* numeric-ascending order of state index.
C3_NumericAscendingOrder ==
    (pc = "done" /\ include_empty_states) =>
        \A a, b \in 1..Len(data) : a < b => IntOf(data[a].key) < IntOf(data[b].key)

\* The state indices whose first header is among the first n lines, in the
\* order of those first headers.
FirstSeen(n) ==
    LET F == { j \in 1..n : /\ IsHeader(j)
                            /\ \A h \in 1..(j - 1) :
                                  IsHeader(h) => HeaderIndex(h) # HeaderIndex(j) }
        js == Ascending(F)
    IN [x \in 1..Len(js) |-> StrNat(HeaderIndex(js[x]))]

C5_EmptyUntilFirstHeader ==
    HeaderStates(Consumed) = {} =>
        /\ data = <<>>
        /\ current_state = None
        /\ max_state_seen = -1
        /\ pc # "error"

\* Gap-filling on, an input with item lines and no header, returned.
C5_Witness ==
    /\ pc = "done" /\ include_empty_states
    /\ HeaderStates(Len(lines)) = {}
    /\ \E j \in 1..Len(lines) : IsItem(j)
    /\ data = <<>>

C9_HeaderKeepsItems ==
    [][ /\ max_state_seen' >= max_state_seen
        /\ Len(data') >= Len(data)
        /\ \A j \in 1..Len(data) :
              /\ data'[j].key = data[j].key
              /\ IsPrefix(data[j].items, data'[j].items)
        /\ ( /\ pc = "scan" /\ i <= Len(lines)
             /\ StateMatch(lines[i]) # None
             /\ HasKey(data, StrNat(IntOf(StateMatch(lines[i])[1]))) )
           => data' = data ]_vars

\* A state's header repeated (or returned to) after it had items, with a
\* further item after the second header: both items are in the table.
C9_Witness ==
    /\ pc = "done"
    /\ \E g, h \in 1..Len(lines) :
          /\ g < h /\ IsHeader(g) /\ IsHeader(h) /\ HeaderIndex(g) = HeaderIndex(h)
          /\ \E j \in (g + 1)..(h - 1) : IsItem(j) /\ Governor(j) = g
          /\ \E j \in (h + 1)..Len(lines) : IsItem(j) /\ Governor(j) = h
          /\ Len(Items(data, StrNat(HeaderIndex(g)))) >= 2

(* ===================== properties of normalize_key ==================== *)

\* The places where a token of t starts: position 0 and every comma.
TokenStarts(t) == {0} \cup { c \in 1..Len(t) : t[c] = "," }

\* The token that starts after place b: up to the next comma or the end.
TokenAt(t, b) ==
    LET E == { c \in (b + 1)..Len(t) : t[c] = "," }
        e == IF E = {} THEN Len(t) + 1 ELSE CHOOSE c \in E : \A d \in E : c <= d
    IN SubSeq(t, b + 1, e - 1)

\* A token without its surrounding whitespace.
Trimmed(u) ==
    LET N == { j \in 1..Len(u) : ~IsSpace(u[j]) } IN
    IF N = {} THEN <<>>
    ELSE SubSeq(u, CHOOSE a \in N : \A x \in N : a <= x,
                   CHOOSE b \in N : \A x \in N : x <= b)

IsTag(u) == u = <<"T">> \/ u = <<"N", "T">>

KeptStarts(t) ==
    { b \in TokenStarts(t) : ~IsTag(Trimmed(TokenAt(t, b))) /\ Trimmed(TokenAt(t, b)) # <<>> }

RECURSIVE KeptText(_, _)
KeptText(t, K) ==
    IF K = {} THEN <<>>
    ELSE LET b == CHOOSE b \in K : \A x \in K : b <= x IN
         Trimmed(TokenAt(t, b))
           \o (IF K = {b} THEN <<>> ELSE <<",", " ">> \o KeptText(t, K \ {b}))

\* C6: the normalized key is one pair of brackets around the tokens of the
\* raw key that, trimmed, are neither T, NT nor empty, each trimmed and
\* verbatim, in their order, separated by ", ".
C6_NormalizeKeyTokens ==
    pc \in {"normalized", "renormalized", "rescanned"} =>
        key = <<"[">> \o KeptText(key_inner, KeptStarts(key_inner)) \o <<"]">>

\* A raw key with a tag that needs trimming to be recognised and a kept
\* token that merely contains T.
C6_Witness ==
    /\ pc = "normalized"
    /\ \E b \in TokenStarts(key_inner) :
          IsTag(Trimmed(TokenAt(key_inner, b))) /\ ~IsTag(TokenAt(key_inner, b))
    /\ \E b \in KeptStarts(key_inner) :
          \E j \in 1..Len(TokenAt(key_inner, b)) : TokenAt(key_inner, b)[j] = "T"
    /\ Len(key) > 2

\* C7 as stated: normalize_key applied to a key it produced returns that
\* key.
C7_IdempotentOnOutput == pc = "renormalized" => rekey = key

\* C7 amended: normalizing the text inside the brackets of a normalized key
\* (what ITEM_RE extracts from an item line carrying that key) returns the
\* same key.
C7_IdempotentOnInner == pc = "rescanned" => rekey = key

\* A key of several tokens, shorter than its raw key, normalized again.
C7_Witness ==
    /\ pc = "rescanned"
    /\ \E j \in 1..Len(key) : key[j] = ","
    /\ Len(key) < Len(key_inner) + 2
    /\ rekey = key

(* ========================= properties of ITEM_RE ====================== *)

FirstOpen(t) ==
    LET O == { j \in 1..Len(t) : t[j] = "[" } IN CHOOSE o \in O : \A x \in O : o <= x

LastClose(t) ==
    LET E == { j \in 1..Len(t) : t[j] = "]" } IN CHOOSE e \in E : \A x \in E : x <= e

\* C10: a line that matches ITEM_RE matches it in exactly one way, the
\* greedy and the non-greedy pattern return the same groups, the opening
\* bracket is the first non-whitespace character and the inner text runs
\* from it to the last ] of the line.
C10_UniqueItemSplit ==
    (pc = "matched" /\ m_item # None) =>
        /\ Cardinality(ItemSplits(line)) = 1
        /\ ItemMatchLazy(line) = m_item
        /\ \A j \in 1..(FirstOpen(line) - 1) : IsSpace(line[j])
        /\ m_item[1].inner = SubSeq(line, FirstOpen(line) + 1, LastClose(line) - 1)

\* A matched line whose inner text contains a closing bracket.
C10_Witness ==
    /\ pc = "matched" /\ m_item # None
    /\ \E j \in 1..Len(m_item[1].inner) : m_item[1].inner[j] = "]"

====
